---- MODULE Spec2Model ----
(***************************************************************************)
(* SormGPT Telegram bot (src/zz.js): the knowledge store (table memory),   *)
(* the built-in table DEFAULT_KNOWLEDGE, getAnswer, teachQuestion,         *)
(* handleMessage, handleHelp, handleStats, the three bot listeners and the *)
(* SIGINT handler.                                                         *)
(*                                                                         *)
(* A JavaScript string is a sequence of atoms.  An atom is a TLA+ string   *)
(* that stands for that literal run of characters; the text is the         *)
(* concatenation of its atoms.  No atom is a concatenation of others, so   *)
(* two sequences are equal exactly when the texts are equal.               *)
(***************************************************************************)
EXTENDS Integers, Sequences, FiniteSets, TLC

VARIABLES memory, logs, queue, inbox, sent, hist, proc

vars == <<memory, logs, queue, inbox, sent, hist, proc>>

(***************************************************************************)
(* Bounds of the model.                                                    *)
(***************************************************************************)
\* inbound messages delivered in one run of the bot
MaxMessages == 3
\* database statements in flight when a further message is still delivered
MaxPending == 1
\* database statements that fail in one run
MaxFailures == 1
\* atoms after the command word in the texts of the parsing specification
MaxLen == 5

(***************************************************************************)
(* Strings.                                                                *)
(***************************************************************************)
\* the atoms a user text is made of
WordAtoms == {"foo", "FOO", "bar", "hi", "HI", "constructor"}
Alphabet == WordAtoms \cup {" ", "|"}

\* the value of a destructured array element that does not exist
Undefined == <<"<undefined>">>

\* String.prototype.toLowerCase on one atom
LowerAtom(c) ==
  CASE c = "FOO" -> "foo"
    [] c = "HI" -> "hi"
    [] OTHER -> c

ToLowerCase(s) == [i \in 1..Len(s) |-> LowerAtom(s[i])]

RECURSIVE TrimStart(_)
TrimStart(s) ==
  IF s # <<>> /\ Head(s) = " " THEN TrimStart(Tail(s)) ELSE s

RECURSIVE TrimEnd(_)
TrimEnd(s) ==
  IF s # <<>> /\ s[Len(s)] = " " THEN TrimEnd(SubSeq(s, 1, Len(s) - 1)) ELSE s

\* String.prototype.trim
Trim(s) == TrimEnd(TrimStart(s))

\* s.startsWith(lit), lit one of the literals that are atoms of their own
StartsWith(s, lit) == s # <<>> /\ Head(s) = lit

\* s.startsWith('/'): the only atoms beginning with a slash
SlashAtoms == {"/help", "/stats"}
StartsWithSlash(s) == s # <<>> /\ Head(s) \in SlashAtoms

\* regexp.exec(s) of an unanchored literal pattern such as /\/help/
Matches(s, lit) == \E i \in 1..Len(s) : s[i] = lit

\* String.prototype.split("|"): the segments between separators
RECURSIVE Split(_)
Split(s) ==
  IF \A i \in 1..Len(s) : s[i] # "|"
  THEN <<s>>
  ELSE LET i == CHOOSE j \in 1..Len(s) :
                  s[j] = "|" /\ \A k \in 1..(j - 1) : s[k] # "|"
       IN  <<SubSeq(s, 1, i - 1)>> \o Split(SubSeq(s, i + 1, Len(s)))

\* JavaScript truthiness of a string or undefined
Truthy(x) == x # <<>> /\ x # Undefined

(***************************************************************************)
(* Built-in knowledge.                                                     *)
(***************************************************************************)
\* the five own properties of the object literal
BuiltinKeys ==
  {<<"who are you">>, <<"who is your developer">>, <<"hello">>, <<"hi">>,
   <<"help">>}

DEFAULT_KNOWLEDGE ==
  [k \in BuiltinKeys |->
     CASE k = <<"who are you">> -> <<"I am SormGPT, your helpful assistant.">>
       [] k = <<"who is your developer">> -> <<"@l9shx is my developer.">>
       [] k = <<"hello">> -> <<"Hello! How can I help you today?">>
       [] k = <<"hi">> -> <<"Hi there! What can I do for you?">>
       [] k = <<"help">> -> <<"You can ask me anything or teach me new things">>]

\* lower-case names every object literal inherits from Object.prototype
InheritedKeys == {<<"constructor">>, <<"__proto__">>}

\* DEFAULT_KNOWLEDGE[k]: an own property, an inherited one, or undefined
DefaultKnowledgeGet(k) ==
  IF k \in BuiltinKeys THEN DEFAULT_KNOWLEDGE[k]
  ELSE IF k \in InheritedKeys THEN <<"[object inherited from Object.prototype]">>
  ELSE Undefined

(***************************************************************************)
(* Records: responses handed to bot.sendMessage, statements handed to the  *)
(* database.                                                               *)
(***************************************************************************)
Response(kind, q, a, n) ==
  [kind |-> kind, q |-> q, a |-> a, n |-> n, top |-> <<>>]

\* the statistics text: the two counts and the listed questions
StatsResponse(n, top) ==
  [kind |-> "Stats", q |-> <<>>, a |-> <<>>, n |-> n, top |-> top]

\* one database statement in flight, with what its callback closes over
Stmt(op, msg, key, answer, shown, acc, excl) ==
  [op |-> op, msg |-> msg, key |-> key, answer |-> answer, shown |-> shown,
   acc |-> acc, excl |-> excl]

\* db.serialize: a statement issued in serialized mode while others are in
\* flight runs exclusively
Serialized(q) == Len(q) > 0

RemoveAt(q, i) == SubSeq(q, 1, i - 1) \o SubSeq(q, i + 1, Len(q))

(***************************************************************************)
(* getAnswer, up to the database read.                                     *)
(***************************************************************************)
\* a key that is trimmed and not lower-cased
GetAnswerKeyAsTyped(question) == Trim(question)

\* the key getAnswer looks up
GetAnswerKey(question) == Trim(ToLowerCase(question))

\* a built-in check on the question as typed
AnsweredByDefaultAsTyped(question) == Truthy(DefaultKnowledgeGet(question))

\* getAnswer answers from DEFAULT_KNOWLEDGE without reading the database
AnsweredByDefault(question) == Truthy(DefaultKnowledgeGet(GetAnswerKey(question)))

(***************************************************************************)
(* handleMessage, the teach branch up to the database write.               *)
(***************************************************************************)
\* const data = message.substring(6).trim()
TeachData(message) == Trim(Tail(message))

\* data.split("|").map(s => s.trim())
TeachParts(message) ==
  LET parts == Split(TeachData(message))
  IN  [i \in 1..Len(parts) |-> Trim(parts[i])]

\* const [question, answer] = ...
TeachQuestion(message) == TeachParts(message)[1]

TeachAnswer(message) ==
  IF Len(TeachParts(message)) >= 2 THEN TeachParts(message)[2] ELSE Undefined

\* a conflict check on the question as typed
TeachConflictKeyAsTyped(question) == question

\* the argument of the DEFAULT_KNOWLEDGE check in handleMessage
TeachConflictKey(question) == ToLowerCase(question)

\* a key that is trimmed and not lower-cased
TeachKeyAsTyped(question) == Trim(question)

\* the row teachQuestion writes
TeachKey(question) == Trim(ToLowerCase(question))

TeachStoredAnswer(answer) == Trim(answer)

\* a format check that looks at the question only
TeachOutcomeQuestionOnly(message) ==
  LET question == TeachQuestion(message)
  IN  IF ~Truthy(question) THEN "InvalidFormat"
      ELSE IF Truthy(DefaultKnowledgeGet(TeachConflictKey(question)))
      THEN "BuiltinConflict"
      ELSE "Write"

\* what the teach branch does with a message: reject, or write
TeachOutcome(message) ==
  LET question == TeachQuestion(message)
      answer == TeachAnswer(message)
  IN  IF ~Truthy(question) \/ ~Truthy(answer) THEN "InvalidFormat"
      ELSE IF Truthy(DefaultKnowledgeGet(TeachConflictKey(question)))
      THEN "BuiltinConflict"
      ELSE "Write"

(***************************************************************************)
(* The bot.  memory and logs are the two tables, queue the statements      *)
(* handed to the database and not yet completed (in issue order), inbox    *)
(* the texts delivered so far, sent[m] the sendMessage calls made for      *)
(* message m.  hist records what has happened, for the properties only:    *)
(* no action reads it except to count failures against MaxFailures.        *)
(***************************************************************************)
NoHist ==
  [failures |-> 0,
   last |-> [op |-> "none", msg |-> 0, key |-> <<>>, ok |-> TRUE],
   hits |-> <<>>, lost |-> <<>>, stale |-> <<>>, writer |-> <<>>]

\* CREATE TABLE IF NOT EXISTS on a fresh bot.db: both tables empty
\* the process after start-up: alive, the connection to bot.db open
Started == [alive |-> TRUE, closed |-> FALSE]

\* the process has not exited: listeners and callbacks still run
Running == proc.alive

Init ==
  /\ memory = <<>>
  /\ logs = <<>>
  /\ queue = <<>>
  /\ inbox = <<>>
  /\ sent = <<>>
  /\ hist = NoHist
  /\ proc = Started

\* a row of table memory; created_at is not modelled
Row(answer, usage_count) == [answer |-> answer, usage_count |-> usage_count]

\* the function f with f[k] set to v, k new or not
Put(f, k, v) == [x \in DOMAIN f \cup {k} |-> IF x = k THEN v ELSE f[x]]

\* an upsert that rewrites the answer column only
UpsertAnswerOnly(mem, key, answer) ==
  IF key \in DOMAIN mem
  THEN [mem EXCEPT ![key].answer = answer]
  ELSE Put(mem, key, Row(answer, 0))

\* a write that leaves the taught row alone in the table
ReplaceTable(mem, key, answer) == Put(<<>>, key, Row(answer, 0))

\* a REPLACE that deletes the conflicting row and inserts nothing in its place
DeleteOnConflict(mem, key, answer) ==
  IF key \in DOMAIN mem
  THEN [k \in DOMAIN mem \ {key} |-> mem[k]]
  ELSE Put(mem, key, Row(answer, 0))

\* INSERT OR REPLACE INTO memory (question, answer): the conflicting row is
\* deleted and a new row is inserted, usage_count taking its DEFAULT 0
InsertOrReplace(mem, key, answer) == Put(mem, key, Row(answer, 0))

\* an UPDATE without its WHERE clause
IncrementEveryUsage(mem, key) ==
  [k \in DOMAIN mem |-> [mem[k] EXCEPT !.usage_count = @ + 1]]

\* UPDATE memory SET usage_count = usage_count + 1 WHERE question = ?
IncrementUsage(mem, key) ==
  IF key \in DOMAIN mem
  THEN [mem EXCEPT ![key].usage_count = @ + 1]
  ELSE mem

\* SELECT answer FROM memory WHERE question = ?: the row, if there is one
NoRow == [answer |-> Undefined, usage_count |-> 0]
Lookup(mem, key) == IF key \in DOMAIN mem THEN mem[key] ELSE NoRow
Found(mem, key) == key \in DOMAIN mem

\* what getAnswer passes to its callback for a question, the database
\* holding mem and no statement failing
GetAnswerResult(mem, question) ==
  IF AnsweredByDefault(question)
  THEN DefaultKnowledgeGet(GetAnswerKey(question))
  ELSE Lookup(mem, GetAnswerKey(question)).answer

\* what the message listener's handleMessage hands to the database
HandleMessageStmts(text, m) ==
  LET message == Trim(text)
      log == Stmt("log", m, <<>>, <<>>, <<>>, <<>>, FALSE)
  IN  IF StartsWith(message, "!teach")
      THEN IF TeachOutcome(message) = "Write"
           THEN <<log,
                  Stmt("insert", m, TeachKey(TeachQuestion(message)),
                       TeachStoredAnswer(TeachAnswer(message)),
                       <<TeachQuestion(message), TeachAnswer(message)>>,
                       <<>>, FALSE)>>
           ELSE <<log>>
      ELSE IF AnsweredByDefault(message)
           THEN <<log>>
           ELSE <<log, Stmt("select", m, GetAnswerKey(message), <<>>, <<>>,
                            <<>>, FALSE)>>

\* what handleMessage sends before it returns
HandleMessageSent(text) ==
  LET message == Trim(text)
  IN  IF StartsWith(message, "!teach")
      THEN IF TeachOutcome(message) = "Write" THEN <<>>
           ELSE <<Response(TeachOutcome(message), <<>>, <<>>, <<>>)>>
      ELSE IF AnsweredByDefault(message)
           THEN <<Response("Answer", <<>>,
                           DefaultKnowledgeGet(GetAnswerKey(message)), <<>>)>>
           ELSE <<>>

\* bot.on('message', ...): the guard of the message listener
MessageListenerFires(text) == Truthy(text) /\ ~StartsWithSlash(text)

\* bot.onText(/\/help/, handleHelp) and bot.onText(/\/stats/, handleStats)
HelpListenerFires(text) == Matches(text, "/help")
StatsListenerFires(text) == Matches(text, "/stats")

\* One update from the transport: the message listener, then every onText
\* callback whose pattern matches, each run to its return.
Receive(text) ==
  /\ Running
  /\ Len(inbox) < MaxMessages
  /\ Len(queue) <= MaxPending
  /\ LET m == Len(inbox) + 1
         q1 == IF MessageListenerFires(text)
               THEN queue \o HandleMessageStmts(text, m) ELSE queue
         s1 == IF MessageListenerFires(text)
               THEN HandleMessageSent(text) ELSE <<>>
         s2 == IF HelpListenerFires(text)
               THEN Append(s1, Response("Help", <<>>, <<>>, <<>>)) ELSE s1
         q2 == IF StatsListenerFires(text)
               THEN Append(q1, Stmt("count_memory", m, <<>>, <<>>, <<>>, <<>>,
                                    Serialized(q1)))
               ELSE q1
     IN  /\ inbox' = Append(inbox, text)
         /\ queue' = q2
         /\ sent' = Append(sent, s2)
  /\ UNCHANGED <<memory, logs, hist, proc>>

(***************************************************************************)
(* Completion of a statement: the database runs it and its callback runs.  *)
(* Statements are issued in parallel mode, so any statement in flight may  *)
(* complete next, except around one that runs exclusively.  A callback     *)
(* reads nothing but its own result, so statement and callback are one     *)
(* step.                                                                   *)
(***************************************************************************)
CanRun(i) ==
  /\ \A j \in 1..(i - 1) : ~queue[j].excl
  /\ queue[i].excl => i = 1

\* a statement may fail (err is set) as long as the run has failures left
MayEnd(ok) == ok \/ hist.failures < MaxFailures

Send(m, r) == [sent EXCEPT ![m] = Append(@, r)]

\* hist after statement st has ended
Ended(st, ok) ==
  [hist EXCEPT !.failures = IF ok THEN @ ELSE @ + 1,
               !.last = [op |-> st.op, msg |-> st.msg, key |-> st.key,
                         ok |-> ok]]

PendingUpdates(q, key) ==
  Cardinality({j \in 1..Len(q) : q[j].op = "update" /\ q[j].key = key})

\* saveLog's INSERT INTO logs and its callback
CompleteLog(i, ok) ==
  /\ queue[i].op = "log"
  /\ CanRun(i)
  /\ Running
  /\ MayEnd(ok)
  /\ logs' = IF ok THEN Append(logs, queue[i].msg) ELSE logs
  /\ queue' = RemoveAt(queue, i)
  /\ hist' = Ended(queue[i], ok)
  /\ UNCHANGED <<memory, inbox, sent, proc>>

\* getAnswer's SELECT and its callback, and the callback handleMessage
\* passed to getAnswer
CompleteSelect(i, ok) ==
  LET st == queue[i]
  IN  /\ st.op = "select"
      /\ CanRun(i)
      /\ Running
      /\ MayEnd(ok)
      /\ IF ~ok
         THEN /\ sent' = Send(st.msg, Response("Error", <<>>, <<>>, <<>>))
              /\ queue' = RemoveAt(queue, i)
              /\ hist' = Ended(st, ok)
         ELSE IF Found(memory, st.key)
         THEN /\ queue' = Append(RemoveAt(queue, i),
                                 Stmt("update", st.msg, st.key, <<>>, <<>>,
                                      <<>>, FALSE))
              /\ sent' = Send(st.msg,
                              IF Truthy(Lookup(memory, st.key).answer)
                              THEN Response("Answer", st.key,
                                            Lookup(memory, st.key).answer, <<>>)
                              ELSE Response("NotKnown", <<>>, <<>>, <<>>))
              /\ hist' = [Ended(st, ok) EXCEPT !.hits[st.key] = @ + 1]
         ELSE /\ queue' = RemoveAt(queue, i)
              /\ sent' = Send(st.msg, Response("NotKnown", <<>>, <<>>, <<>>))
              /\ hist' = Ended(st, ok)
      /\ UNCHANGED <<memory, logs, inbox, proc>>

\* an UPDATE whose failure is passed on to the caller of getAnswer
CompleteUpdateReportsFailure(i, ok) ==
  LET st == queue[i]
  IN  /\ st.op = "update"
      /\ CanRun(i)
      /\ Running
      /\ MayEnd(ok)
      /\ memory' = IF ok THEN IncrementUsage(memory, st.key) ELSE memory
      /\ queue' = RemoveAt(queue, i)
      /\ sent' = IF ok THEN sent
                 ELSE Send(st.msg, Response("Error", <<>>, <<>>, <<>>))
      /\ hist' = IF ok \/ st.key \notin DOMAIN memory
                 THEN Ended(st, ok)
                 ELSE [Ended(st, ok) EXCEPT !.lost[st.key] = @ + 1]
      /\ UNCHANGED <<logs, inbox, proc>>

\* getAnswer's UPDATE of usage_count and its callback
CompleteUpdate(i, ok) ==
  LET st == queue[i]
  IN  /\ st.op = "update"
      /\ CanRun(i)
      /\ Running
      /\ MayEnd(ok)
      /\ memory' = IF ok THEN IncrementUsage(memory, st.key) ELSE memory
      /\ queue' = RemoveAt(queue, i)
      /\ hist' = IF ok \/ st.key \notin DOMAIN memory
                 THEN Ended(st, ok)
                 ELSE [Ended(st, ok) EXCEPT !.lost[st.key] = @ + 1]
      /\ UNCHANGED <<logs, inbox, sent, proc>>

\* a teach callback that acknowledges whatever teachQuestion reports
CompleteInsertAlwaysLearned(i, ok) ==
  LET st == queue[i]
      rest == RemoveAt(queue, i)
  IN  /\ st.op = "insert"
      /\ CanRun(i)
      /\ Running
      /\ MayEnd(ok)
      /\ queue' = rest
      /\ sent' = Send(st.msg,
                      Response("Learned", st.shown[1], st.shown[2], <<>>))
      /\ IF ok
         THEN /\ memory' = InsertOrReplace(memory, st.key, st.answer)
              /\ hist' = [Ended(st, ok) EXCEPT
                            !.hits = Put(@, st.key, 0),
                            !.lost = Put(@, st.key, 0),
                            !.writer = Put(@, st.key, st.msg),
                            !.stale = Put(@, st.key, PendingUpdates(rest, st.key))]
         ELSE /\ memory' = memory
              /\ hist' = Ended(st, ok)
      /\ UNCHANGED <<logs, inbox, proc>>

\* teachQuestion's INSERT OR REPLACE and its callback, and the callback
\* handleMessage passed to teachQuestion
CompleteInsert(i, ok) ==
  LET st == queue[i]
      rest == RemoveAt(queue, i)
  IN  /\ st.op = "insert"
      /\ CanRun(i)
      /\ Running
      /\ MayEnd(ok)
      /\ queue' = rest
      /\ IF ok
         THEN /\ memory' = InsertOrReplace(memory, st.key, st.answer)
              /\ sent' = Send(st.msg,
                              Response("Learned", st.shown[1], st.shown[2], <<>>))
              /\ hist' = [Ended(st, ok) EXCEPT
                            !.hits = Put(@, st.key, 0),
                            !.lost = Put(@, st.key, 0),
                            !.writer = Put(@, st.key, st.msg),
                            !.stale = Put(@, st.key, PendingUpdates(rest, st.key))]
         ELSE /\ memory' = memory
              /\ sent' = Send(st.msg, Response("SaveFailed", <<>>, <<>>, <<>>))
              /\ hist' = Ended(st, ok)
      /\ UNCHANGED <<logs, inbox, proc>>

(***************************************************************************)
(* handleStats: three reads, each issued by the callback of the one before.*)
(***************************************************************************)
\* LIMIT 5
TopLimit == 5

Min(a, b) == IF a <= b THEN a ELSE b

RECURSIVE Perms(_)
Perms(S) ==
  IF S = {} THEN {<<>>}
  ELSE UNION {{<<x>> \o p : p \in Perms(S \ {x})} : x \in S}

\* SELECT question, usage_count FROM memory ORDER BY usage_count DESC LIMIT 5:
\* the results the statement may return; rows of equal usage_count come in
\* an order SQL leaves open
TopQuestions(mem) ==
  LET sorted == {p \in Perms(DOMAIN mem) :
                   \A i \in 1..(Len(p) - 1) :
                      mem[p[i]].usage_count >= mem[p[i + 1]].usage_count}
  IN  {[i \in 1..Min(TopLimit, Len(p)) |->
          [question |-> p[i], usage_count |-> mem[p[i]].usage_count]] :
       p \in sorted}

StatsError == Response("StatsError", <<>>, <<>>, <<>>)

\* SELECT COUNT(*) FROM memory and its callback
CompleteCountMemory(i, ok) ==
  LET st == queue[i]
  IN  /\ st.op = "count_memory"
      /\ CanRun(i)
      /\ Running
      /\ MayEnd(ok)
      /\ IF ok
         THEN /\ queue' = Append(RemoveAt(queue, i),
                                 Stmt("count_logs", st.msg, <<>>, <<>>, <<>>,
                                      <<Cardinality(DOMAIN memory)>>, FALSE))
              /\ sent' = sent
         ELSE /\ queue' = RemoveAt(queue, i)
              /\ sent' = Send(st.msg, StatsError)
      /\ hist' = Ended(st, ok)
      /\ UNCHANGED <<memory, logs, inbox, proc>>

\* a second read whose failure is ignored: the report goes on with a count
\* of 0
CompleteCountLogsIgnoresError(i, ok) ==
  LET st == queue[i]
  IN  /\ st.op = "count_logs"
      /\ CanRun(i)
      /\ Running
      /\ MayEnd(ok)
      /\ queue' = Append(RemoveAt(queue, i),
                         Stmt("top", st.msg, <<>>, <<>>, <<>>,
                              Append(st.acc, IF ok THEN Len(logs) ELSE 0),
                              FALSE))
      /\ sent' = sent
      /\ hist' = Ended(st, ok)
      /\ UNCHANGED <<memory, logs, inbox, proc>>

\* SELECT COUNT(*) FROM logs and its callback
CompleteCountLogs(i, ok) ==
  LET st == queue[i]
  IN  /\ st.op = "count_logs"
      /\ CanRun(i)
      /\ Running
      /\ MayEnd(ok)
      /\ IF ok
         THEN /\ queue' = Append(RemoveAt(queue, i),
                                 Stmt("top", st.msg, <<>>, <<>>, <<>>,
                                      Append(st.acc, Len(logs)), FALSE))
              /\ sent' = sent
         ELSE /\ queue' = RemoveAt(queue, i)
              /\ sent' = Send(st.msg, StatsError)
      /\ hist' = Ended(st, ok)
      /\ UNCHANGED <<memory, logs, inbox, proc>>

\* the top-questions SELECT and its callback
CompleteTop(i, ok) ==
  LET st == queue[i]
  IN  /\ st.op = "top"
      /\ CanRun(i)
      /\ Running
      /\ MayEnd(ok)
      /\ queue' = RemoveAt(queue, i)
      /\ IF ok
         THEN \E top \in TopQuestions(memory) :
                 sent' = Send(st.msg, StatsResponse(st.acc, top))
         ELSE sent' = Send(st.msg, StatsError)
      /\ hist' = Ended(st, ok)
      /\ UNCHANGED <<memory, logs, inbox, proc>>

(***************************************************************************)
(* SIGINT: db.close() and then process.exit() in the same turn of the      *)
(* event loop.  Nothing waits for the statements in flight: the worker     *)
(* threads may have applied any of them to bot.db when the process ends,   *)
(* their callbacks never run, and the close that db.close() has queued     *)
(* behind them may or may not have run.                                    *)
(***************************************************************************)
WriteOps == {"log", "insert", "update"}

\* the database file after statement st has been applied to it
ApplyStmt(file, st) ==
  CASE st.op = "insert" ->
         [file EXCEPT !.memory = InsertOrReplace(@, st.key, st.answer)]
    [] st.op = "update" -> [file EXCEPT !.memory = IncrementUsage(@, st.key)]
    [] st.op = "log" -> [file EXCEPT !.logs = Append(@, st.msg)]
    [] OTHER -> file

\* the file after the statements of q at the places in done, in the order
\* of issue
RECURSIVE ApplyAll(_, _, _, _)
ApplyAll(file, q, done, i) ==
  IF i > Len(q) THEN file
  ELSE ApplyAll(IF i \in done THEN ApplyStmt(file, q[i]) ELSE file, q, done,
                i + 1)

\* the statements of q at the places not in done
RECURSIVE Abandoned(_, _, _)
Abandoned(q, done, i) ==
  IF i > Len(q) THEN <<>>
  ELSE (IF i \in done THEN <<>> ELSE <<q[i]>>) \o Abandoned(q, done, i + 1)

\* process.on('SIGINT', ...)
Sigint ==
  /\ Running
  /\ \E done \in SUBSET {i \in 1..Len(queue) : queue[i].op \in WriteOps},
        closed \in BOOLEAN :
        LET file == ApplyAll([memory |-> memory, logs |-> logs], queue, done, 1)
        IN  /\ memory' = file.memory
            /\ logs' = file.logs
            /\ queue' = Abandoned(queue, done, 1)
            /\ proc' = [alive |-> FALSE, closed |-> closed]
  /\ UNCHANGED <<inbox, sent, hist>>

(***************************************************************************)
(* Texts the transport delivers.                                           *)
(***************************************************************************)
Teach(data) == <<"!teach">> \o data

\* the texts of the bot's specification: questions in several spellings,
\* teach commands well-formed and not, and the two slash commands alone,
\* after other text and together
Inbound ==
  {<<"foo">>, <<" ", "FOO">>, <<"hi">>, <<"HI", " ">>,
   Teach(<<" ", "FOO", " ", "|", " ", "bar">>),
   Teach(<<"foo", "|", "FOO">>),
   Teach(<<" ", "bar", "|", "foo", "|", "FOO">>),
   Teach(<<" ", "HI", "|", "foo">>),
   Teach(<<" ", "foo">>),
   Teach(<<"|", "foo">>),
   <<"/help">>, <<"/stats">>, <<"foo", " ", "/help">>,
   <<"/stats", " ", "/help">>}

BoundedSeq(S, n) == UNION {[1..k -> S] : k \in 0..n}

\* the texts of the parsing specification: every teach command of at most
\* MaxLen atoms after the command word
ParseTexts == {Teach(d) : d \in BoundedSeq(Alphabet, MaxLen)}

(***************************************************************************)
(* Specifications.                                                         *)
(***************************************************************************)
Deliver == \E text \in Inbound : Receive(text)

LogCompletes == \E i \in 1..Len(queue), ok \in BOOLEAN : CompleteLog(i, ok)

SelectCompletes == \E i \in 1..Len(queue), ok \in BOOLEAN : CompleteSelect(i, ok)

UpdateCompletes == \E i \in 1..Len(queue), ok \in BOOLEAN : CompleteUpdate(i, ok)

InsertCompletes == \E i \in 1..Len(queue), ok \in BOOLEAN : CompleteInsert(i, ok)

CountMemoryCompletes ==
  \E i \in 1..Len(queue), ok \in BOOLEAN : CompleteCountMemory(i, ok)

CountLogsCompletes ==
  \E i \in 1..Len(queue), ok \in BOOLEAN : CompleteCountLogs(i, ok)

TopCompletes == \E i \in 1..Len(queue), ok \in BOOLEAN : CompleteTop(i, ok)

Next ==
  \/ Deliver
  \/ LogCompletes
  \/ SelectCompletes
  \/ UpdateCompletes
  \/ InsertCompletes
  \/ CountMemoryCompletes
  \/ CountLogsCompletes
  \/ TopCompletes

\* the bot on a fresh database
Spec == Init /\ [][Next]_vars

\* the bot taught and asked one question, with a second question taught
UsageInbound ==
  {<<" ", "FOO">>,
   Teach(<<"foo", "|", "FOO">>),
   Teach(<<" ", "bar", "|", "foo", "|", "FOO">>)}

DeliverUsage == \E text \in UsageInbound : Receive(text)

NextUsage ==
  \/ DeliverUsage
  \/ LogCompletes
  \/ SelectCompletes
  \/ UpdateCompletes
  \/ InsertCompletes

SpecUsage == Init /\ [][NextUsage]_vars

\* the bot given teach commands only, of built-in and other questions
TeachInbound ==
  {Teach(<<" ", "HI", "|", "foo">>),
   Teach(<<"hi", " ", "|", "bar", "|">>),
   Teach(<<"foo", "|", "FOO">>),
   Teach(<<" ", "FOO", " ", "|", " ", "hi">>)}

DeliverTeach == \E text \in TeachInbound : Receive(text)

NextTeach ==
  \/ DeliverTeach
  \/ LogCompletes
  \/ InsertCompletes

SpecTeach == Init /\ [][NextTeach]_vars

\* a bot.db left by an earlier run or release: CREATE TABLE IF NOT EXISTS
\* keeps its rows, whatever their keys
PersistedStores ==
  {(<<"hi">> :> Row(<<"bar">>, 1)) @@ (<<"foo">> :> Row(<<"FOO">>, 2))}

InitPersisted ==
  /\ memory \in PersistedStores
  /\ logs = <<>>
  /\ queue = <<>>
  /\ inbox = <<>>
  /\ sent = <<>>
  /\ hist = [NoHist EXCEPT !.hits = [k \in DOMAIN memory |-> 0],
                           !.lost = [k \in DOMAIN memory |-> 0],
                           !.stale = [k \in DOMAIN memory |-> 0],
                           !.writer = [k \in DOMAIN memory |-> 0]]
  /\ proc = Started

\* questions only, built-in in two spellings and stored
PersistedInbound == {<<"hi">>, <<"HI", " ">>, <<"foo">>}

DeliverPersisted == \E text \in PersistedInbound : Receive(text)

NextPersisted ==
  \/ DeliverPersisted
  \/ LogCompletes
  \/ SelectCompletes
  \/ UpdateCompletes

SpecPersisted == InitPersisted /\ [][NextPersisted]_vars

\* one teach command on a fresh bot, from delivery to the acknowledgement
ParseOne == inbox = <<>> /\ \E text \in ParseTexts : Receive(text)

NextParse ==
  \/ ParseOne
  \/ LogCompletes
  \/ InsertCompletes

SpecParse == Init /\ [][NextParse]_vars

\* atoms of the questions of the resolving specification
MaxQuestionLen == 2

QuestionTexts == BoundedSeq(WordAtoms \cup {" "}, MaxQuestionLen)

\* one teach command of a one-word question, then one question
TeachTexts == {Teach(<<q, " ", "|", "bar">>) : q \in WordAtoms}

TeachFirst == inbox = <<>> /\ \E text \in TeachTexts : Receive(text)

AskOne == Len(inbox) = 1 /\ \E text \in QuestionTexts : Receive(text)

NextResolve ==
  \/ TeachFirst
  \/ AskOne
  \/ LogCompletes
  \/ InsertCompletes
  \/ SelectCompletes
  \/ UpdateCompletes

SpecResolve == Init /\ [][NextResolve]_vars

\* a teach and a question of what it teaches, and the termination signal
ShutdownInbound == {Teach(<<"foo", "|", "FOO">>), <<"foo">>}

DeliverShutdown == \E text \in ShutdownInbound : Receive(text)

NextShutdown ==
  \/ DeliverShutdown
  \/ LogCompletes
  \/ SelectCompletes
  \/ UpdateCompletes
  \/ InsertCompletes
  \/ Sigint

SpecShutdown == Init /\ [][NextShutdown]_vars

\* a teach, a question of what it teaches and the statistics command
StatsInbound == {Teach(<<"foo", "|", "FOO">>), <<" ", "FOO">>, <<"/stats">>}

DeliverStats == \E text \in StatsInbound : Receive(text)

NextStats ==
  \/ DeliverStats
  \/ LogCompletes
  \/ SelectCompletes
  \/ UpdateCompletes
  \/ InsertCompletes
  \/ CountMemoryCompletes
  \/ CountLogsCompletes
  \/ TopCompletes

SpecStats == Init /\ [][NextStats]_vars

(***************************************************************************)
(* Vocabulary of the properties.                                           *)
(***************************************************************************)
\* "normalized": lower-cased and trimmed
Normalize(t) == Trim(ToLowerCase(t))

Messages == 1..Len(inbox)

\* the message is a teach command handled by the message listener
IsTeach(t) == MessageListenerFires(t) /\ StartsWith(Trim(t), "!teach")

\* the message is a question handled by the message listener
IsQuestion(t) == MessageListenerFires(t) /\ ~StartsWith(Trim(t), "!teach")

\* the teach input: the text after the command word
TeachInput(t) == Tail(Trim(t))

HasBar(d) == \E i \in 1..Len(d) : d[i] = "|"

FirstBar(d) == CHOOSE i \in 1..Len(d) : d[i] = "|" /\ \A j \in 1..(i - 1) : d[j] # "|"

\* the question and the answer of a teach input split on its first "|" only
FirstSplitQuestion(d) == IF HasBar(d) THEN Trim(SubSeq(d, 1, FirstBar(d) - 1)) ELSE Trim(d)

FirstSplitAnswer(d) ==
  IF HasBar(d) THEN Trim(SubSeq(d, FirstBar(d) + 1, Len(d))) ELSE <<>>

\* the text between the first "|" and the next one, or the end
RECURSIVE UpToBar(_)
UpToBar(d) == IF d = <<>> \/ Head(d) = "|" THEN <<>> ELSE <<Head(d)>> \o UpToBar(Tail(d))

SecondSegment(d) ==
  IF HasBar(d) THEN Trim(UpToBar(SubSeq(d, FirstBar(d) + 1, Len(d)))) ELSE <<>>

\* the statements in flight on behalf of message m that touch table memory
StoreStmts(m) ==
  {i \in 1..Len(queue) : queue[i].msg = m /\ queue[i].op \in {"select", "update", "insert"}}

\* message m has written a row of table memory
Wrote(m) == \E k \in DOMAIN hist.writer : hist.writer[k] = m

Kinds(m) == [j \in 1..Len(sent[m]) |-> sent[m][j].kind]

\* the outcomes of the teach branch among the responses to message m
IsTeachKind(k) == k \in {"InvalidFormat", "BuiltinConflict", "Learned", "SaveFailed"}
TeachKinds(m) == SelectSeq(Kinds(m), IsTeachKind)

\* the statement that has just completed, in a step
JustEnded(op) == hist'.last # hist.last /\ hist'.last.op = op /\ hist'.last.ok

(***************************************************************************)
(* C1: re-teaching an existing question.                                   *)
(***************************************************************************)
\* the answer the insert of the message that has just written was given
TaughtAnswer(m) ==
  LET i == CHOOSE j \in 1..Len(queue) : queue[j].msg = m /\ queue[j].op = "insert"
  IN  queue[i].answer

\* C1 as stated: a teach applied to a question the store already holds
\* leaves that entry's usageCount as it was.
C1_ReteachKeepsUsage ==
  [][\A k \in DOMAIN memory :
       (JustEnded("insert") /\ hist'.last.key = k)
         => memory'[k].usage_count = memory[k].usage_count]_vars

\* C1, amended: a teach applied to a question the store already holds
\* replaces the entry's answer by the taught one and sets its usageCount
\* to 0.
C1_ReteachResetsUsage ==
  [][\A k \in DOMAIN memory :
       (JustEnded("insert") /\ hist'.last.key = k)
         => memory'[k] = Row(TaughtAnswer(hist'.last.msg), 0)]_vars

\* a question was taught, resolved from the store, its increment applied,
\* and then taught again
C1_Witness ==
  \E k \in DOMAIN memory :
    /\ hist.last.op = "insert" /\ hist.last.ok /\ hist.last.key = k
    /\ hist.failures = 0
    /\ PendingUpdates(queue, k) = 0
    /\ \E m \in Messages : \E j \in 1..Len(sent[m]) :
          sent[m][j].kind = "Answer" /\ sent[m][j].q = k
    /\ memory[k].usage_count = 0

(***************************************************************************)
(* C2: where the teach input is split.                                     *)
(***************************************************************************)
\* C2 as stated: the answer a teach writes is the trimmed text of all that
\* follows the first "|", further "|" included, and the question the trimmed
\* text before it.
C2_SplitOnFirstBarOnly ==
  /\ \A i \in 1..Len(queue) :
        queue[i].op = "insert"
          => /\ queue[i].answer = FirstSplitAnswer(TeachInput(inbox[queue[i].msg]))
             /\ queue[i].key =
                  Normalize(FirstSplitQuestion(TeachInput(inbox[queue[i].msg])))
  /\ \A k \in DOMAIN memory :
        /\ memory[k].answer = FirstSplitAnswer(TeachInput(inbox[hist.writer[k]]))
        /\ k = Normalize(FirstSplitQuestion(TeachInput(inbox[hist.writer[k]])))

(***************************************************************************)
(* C5: teach input with an empty question or answer.                       *)
(***************************************************************************)
\* the teach input of message m has an empty question or an empty answer,
\* or no separator at all
EmptySide(t) ==
  \/ ~HasBar(TeachInput(t))
  \/ FirstSplitQuestion(TeachInput(t)) = <<>>
  \/ FirstSplitAnswer(TeachInput(t)) = <<>>

\* C5: a teach command whose question or answer is empty after trimming, or
\* that has no "|", gets the InvalidFormat rejection as the one outcome of
\* the teach, no statement on table memory is issued for it, and it writes
\* no row.
C5_InvalidFormatRejected ==
  \A m \in Messages :
    (IsTeach(inbox[m]) /\ EmptySide(inbox[m]))
      => /\ TeachKinds(m) = <<"InvalidFormat">>
         /\ StoreStmts(m) = {}
         /\ ~Wrote(m)
         /\ memory = <<>>

\* a teach command with a question, a separator and a blank answer was
\* rejected and its log statement has completed
C5_Witness ==
  \E m \in Messages :
    /\ IsTeach(inbox[m])
    /\ HasBar(TeachInput(inbox[m]))
    /\ FirstSplitQuestion(TeachInput(inbox[m])) # <<>>
    /\ FirstSplitAnswer(TeachInput(inbox[m])) = <<>>
    /\ Len(TeachInput(inbox[m])) >= 3
    /\ Kinds(m) = <<"InvalidFormat">>
    /\ queue = <<>>

(***************************************************************************)
(* C9: what the Learned acknowledgement reports.                           *)
(***************************************************************************)
\* the Learned acknowledgements sent for message m
Learned(m) == {j \in 1..Len(sent[m]) : sent[m][j].kind = "Learned"}

\* C9 as stated: the question a Learned acknowledgement reports is the key
\* the entry was stored under, and the answer it reports is the stored
\* answer.
C9_LearnedReportsKey ==
  \A m \in Messages : \A j \in Learned(m) :
    /\ Found(memory, sent[m][j].q)
    /\ hist.writer[sent[m][j].q] = m
    /\ memory[sent[m][j].q].answer = sent[m][j].a

\* C9, amended: the question a Learned acknowledgement reports is the
\* trimmed question as typed, the entry was stored under its lower-casing,
\* and the answer it reports is the stored answer.
C9_LearnedReportsTypedQuestion ==
  \A m \in Messages : \A j \in Learned(m) :
    LET r == sent[m][j]
    IN  /\ r.q = FirstSplitQuestion(TeachInput(inbox[m]))
        /\ Found(memory, ToLowerCase(r.q))
        /\ hist.writer[ToLowerCase(r.q)] = m
        /\ memory[ToLowerCase(r.q)].answer = r.a

\* a teach of a question typed with capitals was acknowledged
C9_Witness ==
  \E m \in Messages : \E j \in Learned(m) :
    /\ sent[m][j].q # ToLowerCase(sent[m][j].q)
    /\ Found(memory, ToLowerCase(sent[m][j].q))

(***************************************************************************)
(* C3: built-in precedence.                                                *)
(***************************************************************************)
\* the question normalizes to one of the five built-in keys
AsksBuiltin(t) == IsQuestion(t) /\ Normalize(t) \in BuiltinKeys

\* C3: a question whose normalized form is a built-in key is answered with
\* the built-in answer and nothing else; no statement on table memory is
\* ever issued or completed for it; and while only such questions have been
\* delivered, every row of the store, one with the same key included, is as
\* the database file held it.
C3_BuiltinPrecedence ==
  /\ \A m \in Messages :
        AsksBuiltin(inbox[m])
          => /\ sent[m] = <<Response("Answer", <<>>,
                                     DEFAULT_KNOWLEDGE[Normalize(inbox[m])], <<>>)>>
             /\ StoreStmts(m) = {}
             /\ hist.last.msg = m => hist.last.op = "log"
  /\ (\A m \in Messages : AsksBuiltin(inbox[m])) => memory \in PersistedStores

\* "HI " was answered from the built-in table while the store holds a row
\* keyed "hi", and its log statement has completed
C3_Witness ==
  \E m \in Messages :
    /\ AsksBuiltin(inbox[m])
    /\ inbox[m] # Normalize(inbox[m])
    /\ Found(memory, Normalize(inbox[m]))
    /\ Len(sent[m]) = 1
    /\ hist.last.msg = m

(***************************************************************************)
(* C4: teaching a built-in question.                                       *)
(***************************************************************************)
\* a teach command with a question and, between the first "|" and the
\* next, an answer, whose normalized question is a built-in key
TeachesBuiltin(t) ==
  /\ IsTeach(t)
  /\ FirstSplitQuestion(TeachInput(t)) # <<>>
  /\ SecondSegment(TeachInput(t)) # <<>>
  /\ Normalize(FirstSplitQuestion(TeachInput(t))) \in BuiltinKeys

UpperAtom(c) ==
  CASE c = "foo" -> "FOO"
    [] c = "hi" -> "HI"
    [] OTHER -> c

\* some texts that normalize to the key k
Spellings(k) ==
  {k, <<" ">> \o k, k \o <<" ">>, [i \in 1..Len(k) |-> UpperAtom(k[i])]}

\* C6 as stated: while message m, teach("q | a"), is the last teach applied
\* to its normalized question, that question is normalize(q) and getAnswer
\* gives the trimmed a, all that follows the first "|", for every text that
\* normalizes to it.
C6_TeachThenResolve ==
  \A k \in DOMAIN memory :
    hist.writer[k] > 0
      => LET d == TeachInput(inbox[hist.writer[k]])
         IN  /\ k = Normalize(FirstSplitQuestion(d))
             /\ \A t \in Spellings(k) :
                   GetAnswerResult(memory, t) = FirstSplitAnswer(d)

(***************************************************************************)
(* C7: resolution ignores case and surrounding blanks.                     *)
(***************************************************************************)
\* C7: in every state of the store, before and after the teach, getAnswer
\* gives the same result, an answer or none, for the question asked and for
\* its normalized form, and normalizing twice is normalizing once.
C7_ResolveNormalized ==
  \A m \in Messages :
    IsQuestion(inbox[m])
      => /\ GetAnswerResult(memory, Normalize(inbox[m]))
              = GetAnswerResult(memory, inbox[m])
         /\ Normalize(Normalize(inbox[m])) = Normalize(inbox[m])

\* " FOO" was answered from the store with the answer stored under "foo"
C7_Witness ==
  \E m \in Messages :
    /\ IsQuestion(inbox[m])
    /\ inbox[m] # Normalize(inbox[m])
    /\ Found(memory, Normalize(inbox[m]))
    /\ \E j \in 1..Len(sent[m]) :
          /\ sent[m][j].kind = "Answer"
          /\ sent[m][j].a = GetAnswerResult(memory, Normalize(inbox[m]))

(***************************************************************************)
(* C8: usage counting.                                                     *)
(***************************************************************************)
\* C8 as stated: once no increment of a taught question is in flight and no
\* statement has failed, its usageCount is the number of resolutions that
\* read the entry since it was taught.
C8_UsageEqualsResolves ==
  \A k \in DOMAIN memory :
    (PendingUpdates(queue, k) = 0 /\ hist.failures = 0)
      => memory[k].usage_count = hist.hits[k]

\* C8, amended: every resolution that reads an entry issues one increment
\* and every increment that completes adds one, so that usageCount, the
\* increments in flight and the increments that failed add up to the
\* resolutions that read the entry since the teach that wrote it plus the
\* increments that were in flight when that teach was applied; with none of
\* those, no failure and nothing in flight, n resolutions leave usageCount
\* equal to n.  usageCount is never negative.
C8_UsageAccounting ==
  \A k \in DOMAIN memory :
    /\ memory[k].usage_count + PendingUpdates(queue, k) + hist.lost[k]
         = hist.hits[k] + hist.stale[k]
    /\ (PendingUpdates(queue, k) = 0 /\ hist.failures = 0 /\ hist.stale[k] = 0)
         => memory[k].usage_count = hist.hits[k]
    /\ memory[k].usage_count >= 0

\* a taught question was resolved twice and both increments have completed,
\* while another question is in the store
C8_Witness ==
  \E k \in DOMAIN memory :
    /\ hist.hits[k] = 2
    /\ memory[k].usage_count = 2
    /\ PendingUpdates(queue, k) = 0
    /\ hist.stale[k] = 0
    /\ hist.failures = 0

(***************************************************************************)
(* C10: responses per inbound message.                                     *)
(***************************************************************************)
\* C10 as stated: at most one sendMessage call is made for an inbound
\* message, the calls of the help, stats and message listeners together.
C10_AtMostOneResponse == \A m \in Messages : Len(sent[m]) <= 1

(***************************************************************************)
(* C11: the interaction log.                                               *)
(***************************************************************************)
\* message m was delivered in this step
Delivered(m) == Len(inbox) = m - 1 /\ Len(inbox') = m

\* the places in a queue of the statements issued for message m
StmtsOf(q, m) == {i \in 1..Len(q) : q[i].msg = m}

\* C11 as stated: the delivery of any inbound message, slash command or not,
\* issues the INSERT INTO logs for it before any other statement or response
\* for it, and a step either leaves table logs alone or appends one row.
C11_EveryMessageLogged ==
  [][/\ \A m \in 1..MaxMessages :
          Delivered(m) =>
            \E i \in StmtsOf(queue', m) :
               /\ queue'[i].op = "log"
               /\ \A j \in StmtsOf(queue', m) : i <= j
     /\ Len(logs') >= Len(logs)
     /\ SubSeq(logs', 1, Len(logs)) = logs]_vars

(***************************************************************************)
(* C12: a failed increment.                                                *)
(***************************************************************************)
\* the statement op of message m has failed in this step
JustFailed(op, m) ==
  /\ hist'.failures > hist.failures
  /\ hist'.last.op = op
  /\ hist'.last.msg = m

\* C12: when the UPDATE of usage_count issued by a resolve that hit an entry
\* fails, the message has been given the stored answer and is given nothing
\* more, no error either, and the entry keeps its answer and usageCount.
C12_IncrementBestEffort ==
  [][\A m \in Messages :
       JustFailed("update", m) =>
         LET k == hist'.last.key
         IN  /\ memory' = memory
             /\ sent'[m] = sent[m]
             /\ Len(sent[m]) = 1
             /\ sent[m][1].kind = "Answer"
             /\ sent[m][1].q = k
             /\ sent[m][1].a = memory[k].answer
             /\ \A i \in StmtsOf(queue', m) : queue'[i].op = "log"]_vars

\* a resolve hit a stored entry, was answered, and its increment failed
C12_Witness ==
  /\ hist.last.op = "update"
  /\ ~hist.last.ok
  /\ Kinds(hist.last.msg) = <<"Answer">>
  /\ hist.lost[hist.last.key] = 1
  /\ memory[hist.last.key].usage_count = 2

(***************************************************************************)
(* C13: a teach whose write fails.                                         *)
(***************************************************************************)
\* the outcomes of the teach branch among the responses to message m after
\* the step
TeachKindsAfter(m) ==
  SelectSeq([j \in 1..Len(sent'[m]) |-> sent'[m][j].kind], IsTeachKind)

\* C13: when the INSERT OR REPLACE of a teach that passed both validations
\* fails, the message is given the "failed to save" response and no other
\* teach outcome, then or later, table memory is unchanged, and the process
\* is alive to handle the next message.
C13_PersistenceError ==
  [][\A m \in Messages :
       JustFailed("insert", m) =>
         /\ TeachOutcome(Trim(inbox[m])) = "Write"
         /\ memory' = memory
         /\ TeachKindsAfter(m) = <<"SaveFailed">>
         /\ \A i \in StmtsOf(queue', m) : queue'[i].op = "log"
         /\ proc' = Started]_vars

\* the write of a valid teach failed and was reported, and a teach
\* delivered after that was applied and acknowledged
C13_Witness ==
  \E m1, m2 \in Messages :
    /\ m1 < m2
    /\ TeachOutcome(Trim(inbox[m1])) = "Write"
    /\ TeachKinds(m1) = <<"SaveFailed">>
    /\ ~Wrote(m1)
    /\ TeachKinds(m2) = <<"Learned">>
    /\ Wrote(m2)
    /\ hist.last.msg = m2

(***************************************************************************)
(* C14: teaches of distinct questions in flight together.                  *)
(***************************************************************************)
\* message m is a teach that passed both validations
TeachWrites(m) == IsTeach(inbox[m]) /\ TeachOutcome(Trim(inbox[m])) = "Write"

\* the key and the answer its INSERT OR REPLACE is given
KeyOf(m) == TeachKey(TeachQuestion(Trim(inbox[m])))
AnswerOf(m) == TeachStoredAnswer(TeachAnswer(Trim(inbox[m])))

\* no other teach of the run writes the key of message m
AloneOnKey(m) ==
  \A m2 \in Messages \ {m} : TeachWrites(m2) => KeyOf(m2) # KeyOf(m)

\* C14: a teach's write that completes successfully puts the row of its own
\* question, with the answer the write was given, in table memory and
\* leaves the row of every other question as it was, and a step of any
\* other statement keeps every question with its answer, whatever writes
\* are in flight and in whatever order they complete: teaches of distinct
\* questions never lose one another's entry.
C14_DistinctTeachesKept ==
  [][IF JustEnded("insert")
     THEN LET k == hist'.last.key
              m == hist'.last.msg
          IN  /\ k \in DOMAIN memory'
              /\ memory'[k].answer = TaughtAnswer(m)
              /\ \A k2 \in DOMAIN memory \ {k} :
                    k2 \in DOMAIN memory' /\ memory'[k2] = memory[k2]
     ELSE /\ DOMAIN memory' = DOMAIN memory
          /\ \A k \in DOMAIN memory : memory'[k].answer = memory[k].answer]_vars

\* two teaches of distinct questions had their writes in flight together:
\* the one issued first completed last, and both rows are there
C14_Witness ==
  \E m1, m2 \in Messages :
    /\ m1 < m2
    /\ TeachWrites(m1) /\ TeachWrites(m2)
    /\ KeyOf(m1) # KeyOf(m2)
    /\ AloneOnKey(m1) /\ AloneOnKey(m2)
    /\ {KeyOf(m1), KeyOf(m2)} \subseteq DOMAIN memory
    /\ hist.writer[KeyOf(m2)] = m2
    /\ hist.last = [op |-> "insert", msg |-> m1, key |-> KeyOf(m1), ok |-> TRUE]
    /\ memory[KeyOf(m1)].answer = AnswerOf(m1)
    /\ memory[KeyOf(m2)].answer = AnswerOf(m2)

(***************************************************************************)
(* C15: the termination signal.                                            *)
(***************************************************************************)
\* the writes of table memory that were issued and never applied
LostWrites == {i \in 1..Len(queue) : queue[i].op \in {"insert", "update"}}

\* C15 as stated: when the process has exited on SIGINT, every write of
\* table memory that was issued before the signal has been applied and the
\* connection has been closed.
C15_FlushedAndClosedBeforeExit ==
  ~Running => (LostWrites = {} /\ proc.closed)

(***************************************************************************)
(* C16: the keys of the knowledge store.                                   *)
(***************************************************************************)
\* C16: no step of a teach, a resolve or a statistics report removes a key
\* from table memory, and no two rows hold the same normalized question.
C16_KeysUniqueNeverDeleted ==
  [][/\ DOMAIN memory \subseteq DOMAIN memory'
     /\ \A k1, k2 \in DOMAIN memory' :
           Normalize(k1) = Normalize(k2) => k1 = k2]_vars

\* a question was taught twice, the second write replacing the row of the
\* first, and a statistics report was made after that
C16_Witness ==
  \E m1, m2 \in Messages :
    /\ m1 < m2
    /\ TeachWrites(m1) /\ TeachWrites(m2)
    /\ KeyOf(m1) = KeyOf(m2)
    /\ TeachKinds(m1) = <<"Learned">>
    /\ TeachKinds(m2) = <<"Learned">>
    /\ KeyOf(m1) \in DOMAIN memory
    /\ hist.last.op = "top" /\ hist.last.ok

(***************************************************************************)
(* C17: the statistics report.                                             *)
(***************************************************************************)
StatsOps == {"count_memory", "count_logs", "top"}

\* the responses of handleStats among the responses to message m after the
\* step
IsStatsKind(k) == k \in {"Stats", "StatsError"}
StatsKindsAfter(m) ==
  SelectSeq([j \in 1..Len(sent'[m]) |-> sent'[m][j].kind], IsStatsKind)

\* the reads of the report of message m that are in flight after the step
StatsReadsAfter(m) == {i \in StmtsOf(queue', m) : queue'[i].op \in StatsOps}

\* C17: the read of a statistics report that fails ends the report with one
\* error response and nothing else; the third read succeeding ends it with
\* one statistics text; a first or second read succeeding sends nothing and
\* issues the next read; and no read changes table memory or table logs.
C17_StatsAllOrNothing ==
  [][(hist'.last # hist.last /\ hist'.last.op \in StatsOps) =>
       LET m == hist'.last.msg
           op == hist'.last.op
           ok == hist'.last.ok
       IN  /\ ~ok => /\ StatsKindsAfter(m) = <<"StatsError">>
                     /\ StatsReadsAfter(m) = {}
           /\ (ok /\ op = "top") => /\ StatsKindsAfter(m) = <<"Stats">>
                                    /\ StatsReadsAfter(m) = {}
           /\ (ok /\ op # "top") => /\ StatsKindsAfter(m) = <<>>
                                    /\ Cardinality(StatsReadsAfter(m)) = 1
           /\ memory' = memory
           /\ logs' = logs]_vars

\* the second read of a report failed after the first had succeeded on a
\* store that holds an entry: the error is the only response
C17_Witness ==
  /\ hist.last.op = "count_logs"
  /\ ~hist.last.ok
  /\ Kinds(hist.last.msg) = <<"StatsError">>
  /\ memory # <<>>
  /\ logs # <<>>

(***************************************************************************)
(* C18: the statistics report and concurrent teaches.                      *)
(***************************************************************************)
\* C18 as stated: a statistics text lists no more questions than the entry
\* count it shows, and no more than five.
C18_StatsSnapshot ==
  \A m \in Messages : \A j \in 1..Len(sent[m]) :
    sent[m][j].kind = "Stats"
      => Len(sent[m][j].top) <= Min(TopLimit, sent[m][j].n[1])

(***************************************************************************)
(* C19: the keys of the built-in table.                                    *)
(***************************************************************************)
\* the teach command has a question and an answer
WellFormed(t) == TeachOutcome(Trim(t)) # "InvalidFormat"

\* C19 as stated: a question is answered from the built-in table, and a
\* well-formed teach is rejected as a built-in conflict, only when its
\* normalized question is one of the five declared keys; the delivery of
\* any other non-empty question issues the SELECT and sends nothing, and
\* the delivery of any other well-formed teach issues the INSERT OR REPLACE
\* and sends nothing.
C19_OnlyDeclaredBuiltins ==
  [][\A m \in 1..MaxMessages :
       Delivered(m) =>
         LET t == inbox'[m]
         IN  /\ (/\ IsQuestion(t)
                 /\ Normalize(t) # <<>>
                 /\ Normalize(t) \notin BuiltinKeys)
                  => /\ sent'[m] = <<>>
                     /\ \E i \in StmtsOf(queue', m) :
                           /\ queue'[i].op = "select"
                           /\ queue'[i].key = Normalize(t)
             /\ (/\ IsTeach(t)
                 /\ WellFormed(t)
                 /\ Normalize(TeachQuestion(Trim(t))) \notin BuiltinKeys)
                  => /\ sent'[m] = <<>>
                     /\ \E i \in StmtsOf(queue', m) :
                           /\ queue'[i].op = "insert"
                           /\ queue'[i].key = Normalize(TeachQuestion(Trim(t)))]_vars

====
